---- MODULE Spec2Model ----
(***************************************************************************)
(* Model of src/main.py: AliveWaveGridApp (a sine wave animated on an 8x8   *)
(* monome grid, with a tone synthesizer) and the asyncio event loop that    *)
(* runs its callbacks and animation tasks.                                  *)
(*                                                                          *)
(* Floats are fixed-point integers with SCALE units per 1.0.  Angles are    *)
(* radians in the same unit.  Sin is a Taylor polynomial with quadrant      *)
(* folding, accurate to 2 units of SCALE, exact at 0 and at pi/2; a sine     *)
(* within half a unit of 1 is 1.                                            *)
(***************************************************************************)
EXTENDS Integers, Sequences, FiniteSets, TLC

VARIABLES
    phase,            \* self.phase (fixed point)
    prev_brightness,  \* self.prev_brightness
    connected,        \* self.connected
    tasks,            \* start_animation tasks created by asyncio.ensure_future
    cur,              \* index of the task the event loop is executing, 0 when idle
    announced,        \* ports of the device-added notifications delivered so far
    connects,         \* grid.connect(host, port) calls made so far
    ready_pending,    \* connects whose ready_event has not fired yet
    ready_delivered,  \* number of grid_ready notifications delivered
    link,             \* state of the connection to the grid: "none", "up", "lost"
    leds,             \* the grid's LEDs, leds[y][x], as written by led_all / led_set
    led_all_calls,    \* number of grid.led_all calls
    led_set_calls,    \* number of grid.led_set calls
    frames,           \* number of loop iterations begun
    tones,            \* number of play_sound calls
    stops,            \* number of stop_animation calls
    arg,              \* argument of the pure function under test
    ret,              \* values returned by the pure function under test
    s_pos,            \* play_sound: number of samples of sound_wave enveloped so far
    s_env,            \* play_sound: envelope value applied to the last sample
    s_seg,            \* play_sound: envelope segment of the last sample
    s_out             \* play_sound: last sample of sound_wave after the envelope

vars == <<phase, prev_brightness, connected, tasks, cur, announced, connects,
          ready_pending, ready_delivered, link, leds, led_all_calls, led_set_calls, frames, tones,
          stops, arg, ret, s_pos, s_env, s_seg, s_out>>

appVars == <<phase, prev_brightness, connected>>
loopVars == <<tasks, cur, frames, tones, stops>>
gridVars == <<announced, connects, ready_pending, ready_delivered, link, leds,
              led_all_calls, led_set_calls>>
synthVars == <<s_pos, s_env, s_seg, s_out>>
testVars == <<arg, ret>>

(***************************************************************************)
(* Module-level parameters of main.py.                                      *)
(***************************************************************************)
frequency == 440
sample_rate == 44100
bitmap_size == 8
internal_resolution == 32
amplitude == 1
brightness_factor == 15

\* One unit of the fixed-point representation of a float is 1/SCALE.
SCALE == 10 ^ 4
\* sound_duration = 0.1 s and the envelope's segment times, in milliseconds
sound_duration_ms == 100
attack_ms == 20
decay_ms == 50
release_ms == 20
\* pitch_variation_factor = 0.02, as a fraction 1/50
pitch_variation_den == 50
\* phase_increment = 0.1 and the modulation depth 0.05
phase_increment == SCALE \div 10
phase_modulation_den == 20

Pi == 31416
TwoPi == 2 * Pi
HalfPi == Pi \div 2

Rows == 0 .. bitmap_size - 1
Cols == 0 .. bitmap_size - 1

(***************************************************************************)
(* Arithmetic helpers.                                                      *)
(***************************************************************************)
Abs(x) == IF x < 0 THEN -x ELSE x
Min(a, b) == IF a < b THEN a ELSE b

\* a / b rounded to the nearest integer, for a >= 0 and b > 0
RDiv(a, b) == (2 * a + b) \div (2 * b)

\* int(n / d) of Python for n / d >= 0: truncation
Trunc(n, d) == n \div d

\* np.round(n / d): round half to even, for n >= 0 and d > 0
RoundHalfEven(n, d) ==
    LET q == n \div d
        r == n % d
    IN  IF 2 * r < d THEN q
        ELSE IF 2 * r > d THEN q + 1
        ELSE IF q % 2 = 0 THEN q ELSE q + 1

\* sin on [0, pi/2]: x - x^3/3! + x^5/5! - x^7/7! + x^9/9! in Horner form
SinQ(y) ==
    LET y2 == RDiv(y * y, SCALE)
        t4 == SCALE - RDiv(y2, 72)
        t3 == SCALE - RDiv(y2 * t4, 42 * SCALE)
        t2 == SCALE - RDiv(y2 * t3, 20 * SCALE)
        t1 == SCALE - RDiv(y2 * t2, 6 * SCALE)
    IN  Min(SCALE, RDiv(y * t1, SCALE))

\* np.sin
Sin(x) ==
    LET r == x % TwoPi
    IN  IF r <= HalfPi THEN SinQ(r)
        ELSE IF r <= Pi THEN SinQ(Pi - r)
        ELSE IF r <= Pi + HalfPi THEN -SinQ(r - Pi)
        ELSE -SinQ(TwoPi - r)

\* A variant of interp that extrapolates the line beyond x0 and x1.
interp_unclamped(x, x0, x1, y0, y1) ==
    <<y0 * (x1 - x0) + (x - x0) * (y1 - y0), x1 - x0>>

\* np.interp(x, (x0, x1), (y0, y1)) as the fraction <<numerator, denominator>>;
\* np.interp returns the end values outside [x0, x1].  x, x0, x1 are
\* fixed-point, y0 and y1 are integers.
interp(x, x0, x1, y0, y1) ==
    IF x <= x0 THEN <<y0, 1>>
    ELSE IF x >= x1 THEN <<y1, 1>>
    ELSE <<y0 * (x1 - x0) + (x - x0) * (y1 - y0), x1 - x0>>

(***************************************************************************)
(* generate_bitmap                                                          *)
(***************************************************************************)
\* self.wave_func, np.sin by default
wave_func(x) == Sin(x)

\* wave[k]: x[k] = k * bitmap_size / internal_resolution, so the angle
\* 2 pi x[k] / bitmap_size + phase is 2 pi k / internal_resolution + phase
wave(k, ph) == amplitude * wave_func(RDiv(TwoPi * k, internal_resolution) + ph)

\* np.interp(w, (-1, 1), (0, bitmap_size - 1)) for one sample w, a fraction
scale_to_grid(w) == interp(w, -SCALE, SCALE, 0, bitmap_size - 1)

\* wave_scaled[k], a fraction
wave_scaled(k, ph) == scale_to_grid(wave(k, ph))

\* int(np.round(...)) of the rescaled sample w: the row index of the write
RowIndex(w) == LET ws == scale_to_grid(w) IN RoundHalfEven(ws[1], ws[2])

\* brightness[k], a fraction
brightness(k, ph) == interp(Abs(wave(k, ph)), 0, SCALE, 1, brightness_factor)

\* A variant of ColIndex that rounds col_x to the nearest sample.
ColIndex_nearest(col) == RDiv(col * (internal_resolution - 1), bitmap_size - 1)

\* int(col_x), where col_x = np.interp(col, arange(8), linspace(0, 31, 8))
\* is col * (internal_resolution - 1) / (bitmap_size - 1)
ColIndex(col) == Trunc(col * (internal_resolution - 1), bitmap_size - 1)

\* row = int(np.round(wave_scaled[int(col_x)]))
RowOf(col, ph) ==
    LET ws == wave_scaled(ColIndex(col), ph) IN RoundHalfEven(ws[1], ws[2])

\* A variant of CellOf that rounds the brightness: int(np.round(...))
CellOf_rounded(col, ph) ==
    LET b == brightness(ColIndex(col), ph) IN RoundHalfEven(b[1], b[2])

\* int(brightness[int(col_x)])
CellOf(col, ph) ==
    LET b == brightness(ColIndex(col), ph) IN Trunc(b[1], b[2])

\* A variant of generate_bitmap that lights the column up to the wave's row.
generate_bitmap_filled(ph) ==
    [row \in Rows |-> [col \in Cols |->
        IF row <= RowOf(col, ph) THEN CellOf(col, ph) ELSE 0]]

\* A variant of generate_bitmap that reads self.phase instead of its argument.
generate_bitmap_self(ph) ==
    [row \in Rows |-> [col \in Cols |->
        IF row = RowOf(col, phase) THEN CellOf(col, phase) ELSE 0]]

\* bitmap[row, col], rows by columns; every column gets one assignment
generate_bitmap(ph) ==
    [row \in Rows |-> [col \in Cols |->
        IF row = RowOf(col, ph) THEN CellOf(col, ph) ELSE 0]]

(***************************************************************************)
(* Bounds of the model.                                                     *)
(***************************************************************************)
\* loop iterations begun, over all tasks
MaxFrames == 2
\* device-added notifications
MaxConnects == 2
\* ports a device is announced at: 1 .. MaxPort
MaxPort == 2
\* stop_animation calls
MaxStops == 1

Ports == 1 .. MaxPort
Cells == bitmap_size * bitmap_size
NoBitmap == <<>>
Dark == [y \in Rows |-> [x \in Cols |-> 0]]

(***************************************************************************)
(* State after main() has built the app and registered both handlers.       *)
(***************************************************************************)
AppInit ==
    /\ phase = 0
    /\ prev_brightness = 0
    /\ connected = FALSE

LoopInit ==
    /\ tasks = <<>>
    /\ cur = 0
    /\ frames = 0
    /\ tones = 0
    /\ stops = 0

GridInit ==
    /\ announced = <<>>
    /\ connects = <<>>
    /\ ready_pending = 0
    /\ ready_delivered = 0
    /\ link = "none"
    /\ leds = Dark
    /\ led_all_calls = 0
    /\ led_set_calls = 0

SynthIdle ==
    /\ s_pos = 0
    /\ s_env = 0
    /\ s_seg = "none"
    /\ s_out = 0

TestIdle ==
    /\ arg = 0
    /\ ret = <<>>

Init == AppInit /\ LoopInit /\ GridInit /\ SynthIdle /\ TestIdle

\* A task as asyncio.ensure_future(grid_app.start_animation()) creates it: pc is
\* its position, bitmap its local variable, pos the row display_bitmap is at;
\* stops_seen is the number of stop_animation calls made before it was created.
NewTask == [pc |-> "new", bitmap |-> NoBitmap, pos |-> 0, stops_seen |-> stops]

(***************************************************************************)
(* Callbacks.  A callback runs only while no task is being executed: the    *)
(* event loop is single-threaded.                                           *)
(***************************************************************************)
\* A variant of serialosc_device_added that starts the animation itself.
serialosc_device_added_starts(port) ==
    /\ cur = 0
    /\ Len(announced) < MaxConnects
    /\ announced' = Append(announced, port)
    /\ connects' = Append(connects, <<"127.0.0.1", port>>)
    /\ ready_pending' = ready_pending + 1
    /\ tasks' = Append(tasks, NewTask)
    /\ UNCHANGED <<appVars, cur, frames, tones, stops, ready_delivered, link, leds,
                   led_all_calls, led_set_calls, synthVars, testVars>>

\* serialosc_device_added(id, type, port)
serialosc_device_added(port) ==
    /\ cur = 0
    /\ Len(announced) < MaxConnects
    /\ announced' = Append(announced, port)
    /\ connects' = Append(connects, <<"127.0.0.1", port>>)
    /\ ready_pending' = ready_pending + 1
    /\ UNCHANGED <<appVars, loopVars, ready_delivered, link, leds, led_all_calls,
                   led_set_calls, synthVars, testVars>>

\* The grid finishes a connect and fires ready_event: grid_ready() runs and
\* creates a start_animation task.
grid_ready ==
    /\ cur = 0
    /\ ready_pending > 0
    /\ ready_pending' = ready_pending - 1
    /\ ready_delivered' = ready_delivered + 1
    /\ link' = "up"
    /\ tasks' = Append(tasks, NewTask)
    /\ UNCHANGED <<appVars, cur, frames, tones, stops, announced, connects, leds, led_all_calls,
                   led_set_calls, synthVars, testVars>>

\* The connection to the grid is lost.  main() registers no handler for it.
connection_lost ==
    /\ cur = 0
    /\ link = "up"
    /\ link' = "lost"
    /\ UNCHANGED <<appVars, loopVars, announced, connects, ready_pending, ready_delivered, leds,
                   led_all_calls, led_set_calls, synthVars, testVars>>

\* stop_animation()
stop_animation ==
    /\ cur = 0
    /\ stops < MaxStops
    /\ connected' = FALSE
    /\ stops' = stops + 1
    /\ UNCHANGED <<phase, prev_brightness, tasks, cur, frames, tones, gridVars,
                   synthVars, testVars>>

(***************************************************************************)
(* start_animation, one action per statement.  Between two suspension       *)
(* points the task keeps the event loop (cur).                              *)
(***************************************************************************)
SetPc(i, pc) == [tasks EXCEPT ![i].pc = pc]

\* A variant of the loop that never tests the flag: while True
LoopCondition_always == TRUE

\* the while condition
LoopCondition == connected

\* bitmap[bitmap_size // 2].max()
MiddleRowMax(bitmap) ==
    LET row == bitmap[bitmap_size \div 2]
    IN  CHOOSE m \in {row[c] : c \in Cols} : \A c \in Cols : row[c] <= m

\* A variant of the test with a threshold of 1 instead of 0.1
BrightnessChanged_coarse(prev, now) == Abs(prev - now) * SCALE > SCALE

\* abs(self.prev_brightness - middle_row_brightness) > 0.1
BrightnessChanged(prev, now) == Abs(prev - now) * SCALE > SCALE \div 10

\* phase_increment + 0.05 * np.sin(self.phase)
PhaseStep(ph) ==
    phase_increment +
    (IF Sin(ph) >= 0 THEN RDiv(Sin(ph), phase_modulation_den)
                     ELSE -RDiv(-Sin(ph), phase_modulation_den))

\* A variant of the first step that also starts the wave over: self.phase = 0
StartTask_resets(i) ==
    /\ cur = 0
    /\ tasks[i].pc = "new"
    /\ frames < MaxFrames
    /\ connected' = TRUE
    /\ phase' = 0
    /\ tasks' = SetPc(i, "test")
    /\ cur' = i
    /\ UNCHANGED <<prev_brightness, frames, tones, stops, gridVars, synthVars,
                   testVars>>

\* A variant of the first step that leaves the flag as a stop has set it.
StartTask_keeps(i) ==
    /\ cur = 0
    /\ tasks[i].pc = "new"
    /\ frames < MaxFrames
    /\ connected' = (stops = tasks[i].stops_seen)
    /\ tasks' = SetPc(i, "test")
    /\ cur' = i
    /\ UNCHANGED <<phase, prev_brightness, frames, tones, stops, gridVars, synthVars,
                   testVars>>

\* The task's first step: self.connected = True
StartTask(i) ==
    /\ cur = 0
    /\ tasks[i].pc = "new"
    /\ frames < MaxFrames
    /\ connected' = TRUE
    /\ tasks' = SetPc(i, "test")
    /\ cur' = i
    /\ UNCHANGED <<phase, prev_brightness, frames, tones, stops, gridVars, synthVars,
                   testVars>>

\* while self.connected:
TestLoop(i) ==
    /\ cur = i
    /\ tasks[i].pc = "test"
    /\ IF LoopCondition
       THEN /\ tasks' = SetPc(i, "generate")
            /\ frames' = frames + 1
            /\ cur' = cur
       ELSE /\ tasks' = SetPc(i, "done")
            /\ frames' = frames
            /\ cur' = 0
    /\ UNCHANGED <<appVars, tones, stops, gridVars, synthVars, testVars>>

\* bitmap = self.generate_bitmap(self.phase)
Generate(i) ==
    /\ cur = i
    /\ tasks[i].pc = "generate"
    /\ tasks' = [tasks EXCEPT ![i].pc = "led_all", ![i].bitmap = generate_bitmap(phase)]
    /\ UNCHANGED <<appVars, cur, frames, tones, stops, gridVars, synthVars, testVars>>

\* A variant of led_all that is awaited and gives up the event loop.
LedAll_yields(i) ==
    /\ cur = i
    /\ tasks[i].pc = "led_all"
    /\ leds' = Dark
    /\ led_all_calls' = led_all_calls + 1
    /\ tasks' = [tasks EXCEPT ![i].pc = "led_set", ![i].pos = 0]
    /\ cur' = 0
    /\ UNCHANGED <<appVars, frames, tones, stops, announced, connects, ready_pending,
                   ready_delivered, link, led_set_calls, synthVars, testVars>>

\* display_bitmap: self.grid.led_all(0)
LedAll(i) ==
    /\ cur = i
    /\ tasks[i].pc = "led_all"
    /\ leds' = Dark
    /\ led_all_calls' = led_all_calls + 1
    /\ tasks' = [tasks EXCEPT ![i].pc = "led_set", ![i].pos = 0]
    /\ UNCHANGED <<appVars, cur, frames, tones, stops, announced, connects, ready_pending,
                   ready_delivered, link, led_set_calls, synthVars, testVars>>

\* A variant of the outer loop's iteration that swaps the coordinates:
\* self.grid.led_set(row_idx, col_idx, col)
LedSetRow_swapped(i) ==
    /\ cur = i
    /\ tasks[i].pc = "led_set"
    /\ LET row_idx == tasks[i].pos
           last == row_idx + 1 = bitmap_size
       IN  /\ leds' = [y \in Rows |-> [x \in Cols |->
                          IF x = row_idx THEN tasks[i].bitmap[row_idx][y]
                                         ELSE leds[y][x]]]
           /\ tasks' = [tasks EXCEPT ![i].pos = @ + 1,
                                     ![i].pc = IF last THEN "indicator" ELSE @]
    /\ led_set_calls' = led_set_calls + bitmap_size
    /\ UNCHANGED <<appVars, cur, frames, tones, stops, announced, connects, ready_pending,
                   ready_delivered, link, led_all_calls, synthVars, testVars>>

\* display_bitmap: one iteration of the outer loop, which calls
\* self.grid.led_set(col_idx, row_idx, col) for every col_idx of row row_idx
LedSetRow(i) ==
    /\ cur = i
    /\ tasks[i].pc = "led_set"
    /\ LET row_idx == tasks[i].pos
           last == row_idx + 1 = bitmap_size
       IN  /\ leds' = [leds EXCEPT ![row_idx] =
                          [col_idx \in Cols |-> tasks[i].bitmap[row_idx][col_idx]]]
           /\ tasks' = [tasks EXCEPT ![i].pos = @ + 1,
                                     ![i].pc = IF last THEN "indicator" ELSE @]
    /\ led_set_calls' = led_set_calls + bitmap_size
    /\ UNCHANGED <<appVars, cur, frames, tones, stops, announced, connects, ready_pending,
                   ready_delivered, link, led_all_calls, synthVars, testVars>>

\* The brightness test; the play_sound call in its body is commented out.
Indicator(i) ==
    /\ cur = i
    /\ tasks[i].pc = "indicator"
    /\ LET middle_row_brightness == MiddleRowMax(tasks[i].bitmap)
       IN  prev_brightness' =
               IF BrightnessChanged(prev_brightness, middle_row_brightness)
               THEN middle_row_brightness
               ELSE prev_brightness
    /\ tasks' = SetPc(i, "advance")
    /\ UNCHANGED <<phase, connected, cur, frames, tones, stops, gridVars, synthVars,
                   testVars>>

\* self.phase += ...; await asyncio.sleep(speed)
Advance(i) ==
    /\ cur = i
    /\ tasks[i].pc = "advance"
    /\ phase' = phase + PhaseStep(phase)
    /\ tasks' = SetPc(i, "sleep")
    /\ cur' = 0
    /\ UNCHANGED <<prev_brightness, connected, frames, tones, stops, gridVars,
                   synthVars, testVars>>

\* asyncio.sleep returns
Wake(i) ==
    /\ cur = 0
    /\ tasks[i].pc = "sleep"
    /\ frames < MaxFrames \/ ~LoopCondition
    /\ tasks' = SetPc(i, "test")
    /\ cur' = i
    /\ UNCHANGED <<appVars, frames, tones, stops, gridVars, synthVars, testVars>>

Next ==
    \/ \E port \in Ports : serialosc_device_added(port)
    \/ grid_ready
    \/ connection_lost
    \/ stop_animation
    \/ \E i \in DOMAIN tasks : StartTask(i)
    \/ \E i \in DOMAIN tasks : TestLoop(i)
    \/ \E i \in DOMAIN tasks : Generate(i)
    \/ \E i \in DOMAIN tasks : LedAll(i)
    \/ \E i \in DOMAIN tasks : LedSetRow(i)
    \/ \E i \in DOMAIN tasks : Indicator(i)
    \/ \E i \in DOMAIN tasks : Advance(i)
    \/ \E i \in DOMAIN tasks : Wake(i)

Spec == Init /\ [][Next]_vars

(***************************************************************************)
(* generate_bitmap as a function of its argument: it is called twice with   *)
(* the same phase while operations of the app change the app's state in     *)
(* between.                                                                 *)
(***************************************************************************)
\* the phases rendered are PhaseGrid * (0 .. MaxPhaseIndex), about two periods
MaxPhaseIndex == 255
PhaseGrid == TwoPi \div 128
PhaseInputs == {PhaseGrid * k : k \in 0 .. MaxPhaseIndex}

RenderInit ==
    /\ AppInit /\ LoopInit /\ GridInit /\ SynthIdle
    /\ arg \in PhaseInputs
    /\ ret = <<>>

\* bitmap = self.generate_bitmap(arg)
RenderCall ==
    /\ Len(ret) < 2
    /\ ret' = Append(ret, generate_bitmap(arg))
    /\ UNCHANGED <<appVars, loopVars, gridVars, synthVars, arg>>

\* Between the calls, a loop iteration (the first one, from phase 0) updates
\* prev_brightness and phase ...
BetweenIteration ==
    /\ Len(ret) = 1
    /\ phase = 0
    /\ LET middle_row_brightness == MiddleRowMax(generate_bitmap(phase))
       IN  prev_brightness' =
               IF BrightnessChanged(prev_brightness, middle_row_brightness)
               THEN middle_row_brightness
               ELSE prev_brightness
    /\ phase' = phase + PhaseStep(phase)
    /\ UNCHANGED <<connected, loopVars, gridVars, synthVars, testVars>>

\* ... start_animation sets the flag ...
BetweenStart ==
    /\ Len(ret) = 1
    /\ ~connected
    /\ connected' = TRUE
    /\ UNCHANGED <<phase, prev_brightness, loopVars, gridVars, synthVars, testVars>>

\* ... and stop_animation clears it.
BetweenStop ==
    /\ Len(ret) = 1
    /\ connected
    /\ connected' = FALSE
    /\ UNCHANGED <<phase, prev_brightness, loopVars, gridVars, synthVars, testVars>>

RenderNext == RenderCall \/ BetweenIteration \/ BetweenStart \/ BetweenStop

SpecRender == RenderInit /\ [][RenderNext]_vars

(***************************************************************************)
(* generate_bitmap for an app built with another wave function, or run with *)
(* another amplitude: the samples leave [-1, 1].                            *)
(***************************************************************************)
\* the amplitudes tried are 1 .. MaxAmplitude
MaxAmplitude == 2
\* the wave functions tried: np.sin, and a square wave that is 1 or -1
WaveFuncs == {"sin", "square"}

\* self.wave_func(x) for the wave function named f
WaveFunction(f, x) ==
    IF f = "sin" THEN Sin(x)
    ELSE IF Sin(x) >= 0 THEN SCALE ELSE -SCALE

\* wave[k] for wave function f and amplitude amp
WaveSample(f, amp, k, ph) ==
    amp * WaveFunction(f, RDiv(TwoPi * k, internal_resolution) + ph)

WaveInit ==
    /\ AppInit /\ LoopInit /\ GridInit /\ SynthIdle
    /\ arg \in [func : WaveFuncs, amp : 1 .. MaxAmplitude, ph : PhaseInputs]
    /\ ret = <<>>

\* The loop over the columns: for every column the sample it shows and the
\* row index its cell is written at.
WaveRows ==
    /\ ret = <<>>
    /\ ret' = <<[col \in Cols |->
                  LET w == WaveSample(arg.func, arg.amp, ColIndex(col), arg.ph)
                  IN  [sample |-> w, row |-> RowIndex(w)]]>>
    /\ UNCHANGED <<appVars, loopVars, gridVars, synthVars, arg>>

WaveNext == WaveRows

SpecWave == WaveInit /\ [][WaveNext]_vars

(***************************************************************************)
(* play_sound(brightness), one action per sample of sound_wave.             *)
(***************************************************************************)
\* np.linspace(a, b, n)[k], a and b fixed-point
linspace(a, b, n, k) ==
    IF b >= a THEN a + RDiv((b - a) * k, n - 1)
              ELSE a - RDiv((a - b) * k, n - 1)

\* int(sample_rate * seconds), the time given in milliseconds
Samples(ms) == Trunc(sample_rate * ms, 1000)

\* len(t) = len(sound_wave)
CarrierLen == Samples(sound_duration_ms)

\* lengths of the four arrays that are concatenated
AttackLen == Samples(attack_ms)
DecayLen == Samples(decay_ms)
SustainLen == Samples(sound_duration_ms - (attack_ms + decay_ms))
ReleaseLen == Samples(release_ms)

\* len(envelope)
EnvelopeLen == AttackLen + DecayLen + SustainLen + ReleaseLen

\* the segment envelope[j] comes from
SegmentAt(j) ==
    IF j < AttackLen THEN "attack"
    ELSE IF j < AttackLen + DecayLen THEN "decay"
    ELSE IF j < AttackLen + DecayLen + SustainLen THEN "sustain"
    ELSE "release"

\* envelope[j]
EnvelopeAt(j) ==
    IF j < AttackLen THEN linspace(0, SCALE, AttackLen, j)
    ELSE IF j < AttackLen + DecayLen
        THEN linspace(SCALE, (8 * SCALE) \div 10, DecayLen, j - AttackLen)
    ELSE IF j < AttackLen + DecayLen + SustainLen THEN SCALE
    ELSE linspace((8 * SCALE) \div 10, 0, ReleaseLen,
                  j - (AttackLen + DecayLen + SustainLen))

\* A variant that multiplies by the whole envelope, without the slice.
AppliedLen_unsliced == EnvelopeLen

\* len(envelope[:len(sound_wave)])
AppliedLen == Min(EnvelopeLen, CarrierLen)

\* sound_wave[j] = 0.5 * sin(2 pi pitch t[j]) with t[j] = j / sample_rate and
\* pitch = frequency + b * pitch_variation_factor
sound_wave(b, j) ==
    LET turns == ((frequency * pitch_variation_den + b) * j)
                    % (pitch_variation_den * sample_rate)
        angle == (RDiv(turns, 100) * TwoPi) \div ((pitch_variation_den * sample_rate) \div 100)
        s == Sin(angle)
    IN  IF s >= 0 THEN s \div 2 ELSE -((-s) \div 2)

SynthInit ==
    /\ AppInit /\ LoopInit /\ GridInit /\ SynthIdle
    /\ arg \in 0 .. brightness_factor
    /\ ret = <<>>

\* sound_wave *= envelope[:len(sound_wave)], sample s_pos; numpy raises
\* ValueError when the two lengths differ
EnvelopeSample ==
    /\ s_pos < CarrierLen
    /\ s_seg # "ValueError"
    /\ IF AppliedLen = CarrierLen
       THEN /\ s_pos' = s_pos + 1
            /\ s_env' = EnvelopeAt(s_pos)
            /\ s_seg' = SegmentAt(s_pos)
            /\ s_out' = LET w == sound_wave(arg, s_pos) * EnvelopeAt(s_pos)
                        IN  IF w >= 0 THEN w \div SCALE ELSE -((-w) \div SCALE)
       ELSE /\ s_seg' = "ValueError"
            /\ UNCHANGED <<s_pos, s_env, s_out>>
    /\ UNCHANGED <<appVars, loopVars, gridVars, testVars>>

\* sd.play(sound_wave, samplerate=sample_rate); sd.wait()
PlayAndWait ==
    /\ s_pos = CarrierLen
    /\ s_seg # "played"
    /\ s_seg' = "played"
    /\ UNCHANGED <<appVars, loopVars, gridVars, testVars, s_pos, s_env, s_out>>

SynthNext == EnvelopeSample \/ PlayAndWait

SpecSynth == SynthInit /\ [][SynthNext]_vars

(***************************************************************************)
(* Properties.                                                              *)
(***************************************************************************)
NonZeroRows(bitmap, col) == {row \in Rows : bitmap[row][col] # 0}

\* C1: for every phase, generate_bitmap returns an 8x8 grid of integers in
\* 0 .. 15 with at most one nonzero entry in every column.
C1_BitmapShape ==
    \A i \in DOMAIN ret :
        /\ DOMAIN ret[i] = 0 .. 7
        /\ \A row \in 0 .. 7 :
              /\ DOMAIN ret[i][row] = 0 .. 7
              /\ \A col \in 0 .. 7 : ret[i][row][col] \in 0 .. 15
        /\ \A col \in 0 .. 7 : Cardinality(NonZeroRows(ret[i], col)) <= 1

\* A phase other than 0 has been rendered; every column holds exactly one lit
\* cell, and the wave's crest (brightness 15) and rows 0 and 7 are in use.
C1_Witness ==
    /\ Len(ret) >= 1
    /\ arg > 0
    /\ \A col \in Cols : Cardinality(NonZeroRows(ret[1], col)) = 1
    /\ \E col \in Cols : ret[1][0][col] # 0
    /\ \E col \in Cols : ret[1][7][col] = 15

\* C2: once stop_animation has cleared the flag and no start_animation sets it
\* again, no led_all or led_set call is made; the loop that tests the cleared
\* flag at the top of its next iteration returns.
C2_NoWriteAfterStop ==
    /\ [][(stops > 0 /\ ~connected /\ ~connected')
            => /\ led_all_calls' = led_all_calls
               /\ led_set_calls' = led_set_calls
               /\ leds' = leds
               /\ frames' = frames]_vars
    /\ [][(cur # 0 /\ tasks[cur].pc = "test" /\ ~connected)
            => (tasks'[cur].pc = "done" /\ cur' = 0)]_vars

\* stop_animation was called while a loop slept after a full frame, and that
\* loop has returned.
C2_Witness ==
    /\ stops > 0
    /\ ~connected
    /\ led_set_calls >= Cells
    /\ \E i \in DOMAIN tasks : tasks[i].pc = "done"

\* C3: the brightness test of an iteration triggers play_sound exactly once
\* when the indicator differs from the stored one by more than 0.1, and not at
\* all otherwise.
C3_ToneOnChange ==
    [][(cur # 0 /\ tasks[cur].pc = "indicator")
        => tones' = tones +
             (IF BrightnessChanged(prev_brightness, MiddleRowMax(tasks[cur].bitmap))
              THEN 1 ELSE 0)]_vars

\* C4: before the first grid_ready nothing is written to the grid, phase is
\* not advanced and no animation task exists; tasks are created by grid_ready
\* only; device-added only records a connect to 127.0.0.1 at its port.
C4_NoWriteBeforeReady ==
    /\ [](ready_delivered = 0
            => /\ led_all_calls = 0
               /\ led_set_calls = 0
               /\ phase = 0
               /\ frames = 0
               /\ tasks = <<>>)
    /\ [][Len(tasks') > Len(tasks) => ready_delivered' = ready_delivered + 1]_vars
    /\ [](/\ Len(connects) = Len(announced)
          /\ \A n \in DOMAIN connects : connects[n] = <<"127.0.0.1", announced[n]>>)
    /\ [][Len(announced') > Len(announced)
            => /\ Len(connects') = Len(connects) + 1
               /\ UNCHANGED <<appVars, tasks, cur, leds, led_all_calls, led_set_calls,
                              ready_delivered, link>>]_vars

\* Two devices were announced and connected to, and no grid_ready has come.
C4_Witness ==
    /\ Len(connects) = 2
    /\ connects[1] # connects[2]
    /\ ready_delivered = 0
    /\ ready_pending = 2

\* C5: the envelope slice multiplied with sound_wave has the carrier's 4410
\* samples and every envelope value applied lies in [0, 1].
C5_EnvelopeFitsCarrier ==
    /\ CarrierLen = 4410
    /\ AppliedLen = CarrierLen
    /\ s_seg # "ValueError"
    /\ s_pos <= CarrierLen
    /\ s_env \in 0 .. SCALE

\* All samples of a tone have been enveloped; the decay has been passed, so
\* values below 1 were applied.
C5_Witness ==
    /\ s_pos = CarrierLen
    /\ s_seg = "played"
    /\ arg = brightness_factor

\* C6: the four segments together have as many samples as the carrier, and
\* the last samples of the carrier are shaped by the release ramp.
C6_SegmentsMatchCarrier ==
    s_pos > 0 =>
        /\ EnvelopeLen = CarrierLen
        /\ (s_pos = CarrierLen => s_seg \in {"release", "played"})

\* C7: two calls of generate_bitmap with the same phase return the same
\* bitmap whatever happened to the app between them, and a call leaves phase,
\* prev_brightness and connected as they were.
C7_RenderPure ==
    /\ [](Len(ret) = 2 => ret[1] = ret[2])
    /\ [][Len(ret') > Len(ret) => UNCHANGED appVars]_vars

\* The second call came after an iteration and a start had changed phase,
\* prev_brightness and connected.
C7_Witness ==
    /\ Len(ret) = 2
    /\ arg > 0
    /\ phase > 0
    /\ prev_brightness > 0
    /\ connected

\* C8: once the connection to the grid is lost, no further led_all or led_set
\* call is made.
C8_NoWriteAfterConnectionLoss ==
    [][link = "lost"
        => /\ led_all_calls' = led_all_calls
           /\ led_set_calls' = led_set_calls]_vars

\* the animation loops that have started and not returned
ActiveLoops == {i \in DOMAIN tasks : tasks[i].pc \notin {"new", "done"}}

\* C9: at most one animation loop is active at any time.
C9_SingleLoop == Cardinality(ActiveLoops) <= 1

\* the sample indices C10 is stated with, and those the code uses
NearestIndices == <<0, 4, 9, 13, 18, 22, 27, 31>>
TruncatedIndices == <<0, 4, 8, 13, 17, 22, 26, 31>>

\* column col of bitmap holds, at the row of sample k, the brightness of sample k
ColumnFromSample(bitmap, col, k, ph) ==
    LET ws == wave_scaled(k, ph)
        b == brightness(k, ph)
    IN  bitmap[RoundHalfEven(ws[1], ws[2])][col] = Trunc(b[1], b[2])

\* C10 as stated: column c is taken from the sample nearest to c * 31 / 7.
C10_NearestSample ==
    \A i \in DOMAIN ret : \A col \in Cols :
        /\ NearestIndices[col + 1] = RDiv(col * 31, 7)
        /\ ColumnFromSample(ret[i], col, NearestIndices[col + 1], arg)

\* C10 as amended: column c is taken from the sample floor(c * 31 / 7).
C10_TruncatedSample ==
    \A i \in DOMAIN ret : \A col \in Cols :
        /\ TruncatedIndices[col + 1] = (col * 31) \div 7
        /\ ColumnFromSample(ret[i], col, TruncatedIndices[col + 1], arg)

\* Phase 0 has been rendered: column 2 shows the crest, sample 8.
C10_Witness ==
    /\ Len(ret) >= 1
    /\ arg = 0
    /\ ret[1][7][2] = 15

\* the rescaled sample w rounded, with no clamping
UnclampedRow(w) == RoundHalfEven((w + SCALE) * 7, 2 * SCALE)

\* C11 as stated: the row index is the rounded linear rescaling of the sample,
\* unclamped, so it leaves 0 .. 7 when the sample leaves [-1, 1].
C11_RowUnclamped ==
    \A i \in DOMAIN ret : \A col \in Cols :
        ret[i][col].row = UnclampedRow(ret[i][col].sample)

\* C11 as amended: np.interp saturates, so the row index stays in 0 .. 7; it
\* is 7 for samples >= 1 and 0 for samples <= -1.
C11_RowSaturates ==
    \A i \in DOMAIN ret : \A col \in Cols :
        /\ ret[i][col].row \in 0 .. 7
        /\ ret[i][col].sample >= SCALE => ret[i][col].row = 7
        /\ ret[i][col].sample <= -SCALE => ret[i][col].row = 0
        /\ Abs(ret[i][col].sample) < SCALE
              => ret[i][col].row = UnclampedRow(ret[i][col].sample)

\* A sine of amplitude 2 has been rendered: samples above 1 and below -1 were
\* written at rows 7 and 0.
C11_Witness ==
    /\ Len(ret) = 1
    /\ arg.func = "sin"
    /\ arg.amp = 2
    /\ \E col \in Cols : ret[1][col].sample > SCALE /\ ret[1][col].row = 7
    /\ \E col \in Cols : ret[1][col].sample < -SCALE /\ ret[1][col].row = 0

\* 0.1 + 0.05 * sin(ph)
PhaseRule(ph) ==
    1000 + (IF Sin(ph) >= 0 THEN (2 * Sin(ph) + 20) \div 40
                            ELSE -((2 * (-Sin(ph)) + 20) \div 40))

\* C12: phase changes only in the step of a loop iteration that follows the
\* dispatch of the frame rendered from the old phase and precedes the sleep;
\* that step adds 0.1 + 0.05 sin(phase); no other step (stop, a later start,
\* device-added, grid-ready, render) changes phase.
C12_PhaseOnlyAdvanced ==
    /\ [][phase' # phase
            => /\ cur # 0
               /\ tasks[cur].pc = "advance"
               /\ tasks[cur].bitmap = generate_bitmap(phase)
               /\ leds = tasks[cur].bitmap
               /\ phase' = phase + PhaseRule(phase)
               /\ tasks'[cur].pc = "sleep"
               /\ cur' = 0]_vars
    /\ [][(cur # 0 /\ tasks[cur].pc = "advance") => phase' > phase]_vars
    /\ [][(cur # 0 /\ tasks[cur].pc # "advance") => phase' = phase]_vars

\* A loop was stopped and has returned; a task started afterwards renders its
\* first frame from the phase the first loop left.
C12_Witness ==
    /\ stops > 0
    /\ phase > 0
    /\ \E i, j \in DOMAIN tasks :
          /\ tasks[i].pc = "done"
          /\ tasks[j].pc = "led_all"
          /\ tasks[j].bitmap = generate_bitmap(phase)
          /\ cur = j

\* task i is between the led_all and the last led_set of a frame
Dispatching(i) == tasks[i].pc = "led_set"

\* C13: a frame's dispatch is one led_all(0), which darkens the grid, followed
\* by the led_set calls row by row, 64 in all, led_set(col, row,
\* bitmap[row][col]); the sets of a frame follow its led_all.
C13_DispatchOrder ==
    /\ \A i \in DOMAIN tasks :
          /\ Dispatching(i)
                => /\ led_all_calls = frames
                   /\ led_set_calls = 64 * (led_all_calls - 1) + 8 * tasks[i].pos
                   /\ \A y \in 0 .. 7 : \A x \in 0 .. 7 :
                         leds[y][x] = IF y < tasks[i].pos THEN tasks[i].bitmap[y][x]
                                                          ELSE 0
          /\ tasks[i].pc \in {"indicator", "advance"}
                => /\ led_all_calls = frames
                   /\ led_set_calls = 64 * led_all_calls
                   /\ \A y \in 0 .. 7 : \A x \in 0 .. 7 :
                         leds[y][x] = tasks[i].bitmap[y][x]
    /\ cur = 0 => (led_all_calls = frames /\ led_set_calls = 64 * frames)

\* The second frame has been dispatched in full.
C13_Witness ==
    /\ led_all_calls = 2
    /\ led_set_calls = 128
    /\ \E i \in DOMAIN tasks : tasks[i].pc = "indicator" /\ leds = tasks[i].bitmap

\* the value written in column col of bitmap, for phase ph
Written(bitmap, col, ph) ==
    LET ws == wave_scaled(TruncatedIndices[col + 1], ph)
    IN  bitmap[RoundHalfEven(ws[1], ws[2])][col]

\* 1 + 14 |w| for the sample shown in column col, in units of 1 / SCALE
SampleBrightness(col, ph) ==
    SCALE + 14 * Abs(wave(TruncatedIndices[col + 1], ph))

\* C14 as stated: the brightness written is 1 + 14 |sample| rounded to the
\* nearest integer.
C14_BrightnessRounded ==
    \A i \in DOMAIN ret : \A col \in Cols :
        Written(ret[i], col, arg) = (2 * SampleBrightness(col, arg) + SCALE) \div (2 * SCALE)

\* C14 as amended: the brightness written is 1 + 14 |sample| truncated to an
\* integer.
C14_BrightnessTruncated ==
    \A i \in DOMAIN ret : \A col \in Cols :
        Written(ret[i], col, arg) = SampleBrightness(col, arg) \div SCALE

\* Phase 0 has been rendered: column 1 shows sample 4, sin(pi/4), whose
\* brightness 10.899 is written as 10.
C14_Witness ==
    /\ Len(ret) >= 1
    /\ arg = 0
    /\ SampleBrightness(1, 0) \div (SCALE \div 10) = 108
    /\ ret[1][6][1] = 10

\* C15: every envelope value of the sustain segment is 0.8.
C15_SustainLevel ==
    s_seg = "sustain" => s_env = (8 * SCALE) \div 10

\* C16: when an iteration has passed its brightness test, prev_brightness is
\* the maximum of row 4 of the bitmap the iteration dispatched.
C16_PrevIsIndicator ==
    \A i \in DOMAIN tasks :
        tasks[i].pc = "advance"
            => /\ \A col \in 0 .. 7 : tasks[i].bitmap[4][col] <= prev_brightness
               /\ \E col \in 0 .. 7 : tasks[i].bitmap[4][col] = prev_brightness
               /\ leds[4] = tasks[i].bitmap[4]

\* An iteration found the indicator changed from 1 to 2 and stored it.
C16_Witness ==
    \E i \in DOMAIN tasks :
        /\ tasks[i].pc = "advance"
        /\ frames >= 2
        /\ prev_brightness = 2
        /\ \E col \in Cols : tasks[i].bitmap[4][col] = 2

\* C17: from a frame's led_all to its last led_set the dispatching task keeps
\* the event loop: every step in between is a step of that task, no callback
\* runs and no other task moves, so the writes of two frames never interleave.
C17_DispatchAtomic ==
    /\ [](\A i \in DOMAIN tasks : Dispatching(i) => cur = i)
    /\ [][\A i \in DOMAIN tasks :
            Dispatching(i)
                => /\ tasks'[i].pc \in {"led_set", "indicator"}
                   /\ tasks'[i].pos = tasks[i].pos + 1
                   /\ led_set_calls' = led_set_calls + 8
                   /\ led_all_calls' = led_all_calls
                   /\ Len(tasks') = Len(tasks)
                   /\ \A j \in DOMAIN tasks : j # i => tasks'[j] = tasks[j]
                   /\ UNCHANGED <<appVars, announced, connects, ready_pending,
                                  ready_delivered, link, stops, frames>>]_vars

\* Two loops run: one is in the middle of a dispatch while the other sleeps.
C17_Witness ==
    \E i, j \in DOMAIN tasks :
        /\ tasks[i].pc = "led_set"
        /\ tasks[i].pos = 4
        /\ tasks[j].pc = "sleep"

\* task i has dispatched a full frame
FrameDispatched(i) ==
    /\ tasks[i].bitmap # NoBitmap
    /\ tasks[i].pos = 8

\* C18: the first step of a start_animation task sets the flag whatever stops
\* were made before, and the task does not sleep or return before it has
\* dispatched a full frame.
C18_FirstFrame ==
    /\ [][\A i \in DOMAIN tasks :
            (tasks[i].pc = "new" /\ tasks'[i].pc # "new")
                => (connected' /\ tasks'[i].pc = "test" /\ cur' = i)]_vars
    /\ [][\A i \in DOMAIN tasks :
            (tasks[i].pc = "test" /\ tasks[i].bitmap = NoBitmap)
                => tasks'[i].pc = "generate"]_vars
    /\ [](\A i \in DOMAIN tasks :
            tasks[i].pc \in {"sleep", "done"} => FrameDispatched(i))

\* stop_animation was called after the only task was created and before its
\* first step; the task has dispatched a frame and the flag is set.
C18_Witness ==
    /\ Len(tasks) = 1
    /\ tasks[1].pc = "sleep"
    /\ stops > tasks[1].stops_seen
    /\ connected
    /\ led_set_calls = 64
    /\ leds = tasks[1].bitmap

====
